---- MODULE Spec2Model ----
(***************************************************************************)
(* live_dsp: run_loopback (src/src/main.rs).  A capture stream and a       *)
(* render stream, each driven by its own device thread, exchange f32       *)
(* samples through two ringbuf::HeapRb rings (L and R).  The main thread   *)
(* checks the device configurations, creates the rings, builds and plays   *)
(* the two streams and then waits for a line on stdin.                     *)
(*                                                                         *)
(* Each thread is a small program counter machine.  One step of a data     *)
(* callback is one try_push / try_pop or one half of a println!/eprintln!  *)
(* (taking the stdout/stderr lock, then writing and releasing it), so the  *)
(* two callbacks interleave at the granularity of single ring operations.  *)
(***************************************************************************)
EXTENDS Integers, Sequences, FiniteSets

\* ---------------------------------------------------------------- bounds
MaxBufferSize == 1      \* largest buffer_size typed by the user
MaxBlock == 2           \* most frames in one callback block
MaxFramesIn == 3        \* frames delivered to the input callback in a run
MaxFramesOut == 3       \* frames requested from the output callback in a run

\* ---------------------------------------------------------------- values
SampleFormats == {"F32", "I16", "U8"}
InputSampleRates == {44100, 48000}
OutputSampleRates == {48000}
ChannelCounts == {1, 2, 3}
Silence == 0                      \* the f32 0.0 substituted on underrun
Channel == {"L", "R"}             \* the two rings
Unwritten == -1                   \* an output slot the callback has not written

VARIABLES
    default_input_config,   \* [sample_format, sample_rate, channels]
    default_output_config,
    buffer_size,            \* parsed from stdin, line 127
    main_pc,                \* position of run_loopback on the main thread
    result,                 \* how run_loopback ended: "none" | "Ok" | "Err" | "panic"
    rings,                  \* "none" | "alive" | "released"
    ring_buffer,            \* Channel -> samples stored, oldest first
    input_stream,           \* "none" | "built" | "playing" | "dropped"
    output_stream,
    cap_pc,                 \* position of the input device thread
    in_data,                \* data: &[f32] of the running input callback
    in_frame,               \* index of the frame being processed
    cap_ch,                 \* ring the input callback is about to push to
    ren_pc,                 \* position of the output device thread
    out_data,               \* data: &mut [f32] of the running output callback
    out_frame,
    ren_ch,
    stdout_lock,            \* holder of the process-wide stdout lock
    stderr_lock,            \* holder of the process-wide stderr lock
    pushed,                 \* Channel -> samples accepted by try_push, in order
    popped,                 \* Channel -> samples returned by try_pop, in order
    overruns,               \* Channel -> try_push calls that returned Err
    underruns,              \* Channel -> try_pop calls that returned None
    written,                \* Channel -> popped samples stored in a block
    frames_in,              \* frames delivered so far
    frames_out,             \* frames requested so far
    device_error            \* a stream error has been reported to err_fn

vars == <<default_input_config, default_output_config, buffer_size, main_pc,
          result, rings, ring_buffer, input_stream, output_stream,
          cap_pc, in_data, in_frame, cap_ch, ren_pc, out_data, out_frame,
          ren_ch, stdout_lock, stderr_lock, pushed, popped, overruns,
          underruns, written, frames_in, frames_out, device_error>>

config_vars == <<default_input_config, default_output_config, buffer_size>>
main_vars == <<main_pc, result, rings, input_stream, output_stream>>
cap_vars == <<cap_pc, in_data, in_frame, cap_ch>>
ren_vars == <<ren_pc, out_data, out_frame, ren_ch>>
lock_vars == <<stdout_lock, stderr_lock>>
ring_vars == <<ring_buffer, pushed, popped, overruns, underruns, written>>
count_vars == <<frames_in, frames_out, device_error>>

\* ------------------------------------------------------ derived quantities
\* What default_input_config() / default_output_config() can report
\* (lines 110-111).
InputConfigs ==
    [sample_format : SampleFormats, sample_rate : InputSampleRates,
     channels : ChannelCounts]

OutputConfigs ==
    [sample_format : SampleFormats, sample_rate : OutputSampleRates,
     channels : ChannelCounts]

input_channels == default_input_config.channels
output_channels == default_output_config.channels

\* HeapRb::<f32>::new(buffer_size as usize * 2)
Capacity == buffer_size * 2

\* ------------------------------------------------------------ the ring
try_push_unbounded(rb, elem, cap) == [ok |-> TRUE, rb |-> Append(rb, elem)]

try_push_overwrite(rb, elem, cap) ==
    IF Len(rb) < cap
    THEN [ok |-> TRUE, rb |-> Append(rb, elem)]
    ELSE [ok |-> FALSE, rb |-> Append(Tail(rb), elem)]

try_push_accept_full(rb, elem, cap) ==
    IF Len(rb) < cap
    THEN [ok |-> TRUE, rb |-> Append(rb, elem)]
    ELSE [ok |-> TRUE, rb |-> rb]

try_push_keeps_one_free(rb, elem, cap) ==
    IF Len(rb) < cap - 1
    THEN [ok |-> TRUE, rb |-> Append(rb, elem)]
    ELSE [ok |-> FALSE, rb |-> rb]

\* Producer::try_push: stores elem behind the newest sample unless the ring
\* holds cap samples; then Err(elem) and the ring is untouched.
try_push(rb, elem, cap) ==
    IF Len(rb) < cap
    THEN [ok |-> TRUE, rb |-> Append(rb, elem)]
    ELSE [ok |-> FALSE, rb |-> rb]

try_pop_newest(rb) ==
    IF rb # <<>>
    THEN [some |-> TRUE, value |-> rb[Len(rb)], rb |-> SubSeq(rb, 1, Len(rb) - 1)]
    ELSE [some |-> FALSE, value |-> 0, rb |-> rb]

\* Consumer::try_pop: removes and returns the oldest sample, None when empty.
try_pop(rb) ==
    IF rb # <<>>
    THEN [some |-> TRUE, value |-> Head(rb), rb |-> Tail(rb)]
    ELSE [some |-> FALSE, value |-> 0, rb |-> rb]

\* ------------------------------------------------------------- Init
\* run_loopback has read both default configurations and the buffer size
\* (lines 110-130).  buffer_size is at least 1: the ring of capacity 0 that
\* an input of 0 asks for is left out.
Init ==
    /\ default_input_config \in InputConfigs
    /\ default_output_config \in OutputConfigs
    /\ buffer_size \in 1..MaxBufferSize
    /\ main_pc = "check_sample_format"
    /\ result = "none"
    /\ rings = "none"
    /\ ring_buffer = [c \in Channel |-> <<>>]
    /\ input_stream = "none"
    /\ output_stream = "none"
    /\ cap_pc = "idle"
    /\ in_data = <<>>
    /\ in_frame = 0
    /\ cap_ch = "L"
    /\ ren_pc = "idle"
    /\ out_data = <<>>
    /\ out_frame = 0
    /\ ren_ch = "L"
    /\ stdout_lock = "none"
    /\ stderr_lock = "none"
    /\ pushed = [c \in Channel |-> <<>>]
    /\ popped = [c \in Channel |-> <<>>]
    /\ overruns = [c \in Channel |-> 0]
    /\ underruns = [c \in Channel |-> 0]
    /\ written = [c \in Channel |-> <<>>]
    /\ frames_in = 0
    /\ frames_out = 0
    /\ device_error = FALSE


\* ------------------------------------------------------ the main thread
QuiescentOrNot(pc) == TRUE

\* A stream's device thread is not inside a callback.
Quiescent(pc) == pc \in {"idle", "panicked"}

\* Lines 133-139: the sample formats must match, else panic!.
CheckSampleFormat ==
    /\ main_pc = "check_sample_format"
    /\ IF default_input_config.sample_format # default_output_config.sample_format
       THEN main_pc' = "done" /\ result' = "panic"
       ELSE main_pc' = "check_sample_rate" /\ result' = result
    /\ UNCHANGED <<rings, input_stream, output_stream>>
    /\ UNCHANGED <<config_vars, cap_vars, ren_vars, lock_vars, ring_vars, count_vars>>

\* Lines 142-148: the sample rates must match, else panic!.
CheckSampleRate ==
    /\ main_pc = "check_sample_rate"
    /\ IF default_input_config.sample_rate # default_output_config.sample_rate
       THEN main_pc' = "done" /\ result' = "panic"
       ELSE main_pc' = "create_rings" /\ result' = result
    /\ UNCHANGED <<rings, input_stream, output_stream>>
    /\ UNCHANGED <<config_vars, cap_vars, ren_vars, lock_vars, ring_vars, count_vars>>

\* Lines 170-173: the two rings and their producer/consumer halves.
CreateRings ==
    /\ main_pc = "create_rings"
    /\ rings' = "alive"
    /\ ring_buffer' = [c \in Channel |-> <<>>]
    /\ main_pc' = "build_input_stream"
    /\ UNCHANGED <<result, input_stream, output_stream, pushed, popped,
                   overruns, underruns, written>>
    /\ UNCHANGED <<config_vars, cap_vars, ren_vars, lock_vars, count_vars>>

\* Lines 186-240: F32 and I16 get a stream (build_input_stream(..)? may fail),
\* any other format bails out with an error.
BuildInputStream ==
    /\ main_pc = "build_input_stream"
    /\ \E built \in BOOLEAN :
          IF built /\ default_input_config.sample_format \in {"F32", "I16"}
          THEN /\ input_stream' = "built"
               /\ main_pc' = "build_output_stream"
               /\ result' = result
          ELSE /\ input_stream' = input_stream
               /\ main_pc' = "drop_output_stream"
               /\ result' = "Err"
    /\ UNCHANGED <<rings, output_stream>>
    /\ UNCHANGED <<config_vars, cap_vars, ren_vars, lock_vars, ring_vars, count_vars>>

\* Lines 244-309.
BuildOutputStream ==
    /\ main_pc = "build_output_stream"
    /\ \E built \in BOOLEAN :
          IF built /\ default_output_config.sample_format \in {"F32", "I16"}
          THEN /\ output_stream' = "built"
               /\ main_pc' = "play_input_stream"
               /\ result' = result
          ELSE /\ output_stream' = output_stream
               /\ main_pc' = "drop_output_stream"
               /\ result' = "Err"
    /\ UNCHANGED <<rings, input_stream>>
    /\ UNCHANGED <<config_vars, cap_vars, ren_vars, lock_vars, ring_vars, count_vars>>

\* Line 312: input_stream.play()?
PlayInputStream ==
    /\ main_pc = "play_input_stream"
    /\ \E played \in BOOLEAN :
          IF played
          THEN /\ input_stream' = "playing"
               /\ main_pc' = "play_output_stream"
               /\ result' = result
          ELSE /\ input_stream' = input_stream
               /\ main_pc' = "drop_output_stream"
               /\ result' = "Err"
    /\ UNCHANGED <<rings, output_stream>>
    /\ UNCHANGED <<config_vars, cap_vars, ren_vars, lock_vars, ring_vars, count_vars>>

\* Line 313: output_stream.play()?
PlayOutputStream ==
    /\ main_pc = "play_output_stream"
    /\ \E played \in BOOLEAN :
          IF played
          THEN /\ output_stream' = "playing"
               /\ main_pc' = "wait_enter"
               /\ result' = result
          ELSE /\ output_stream' = output_stream
               /\ main_pc' = "drop_output_stream"
               /\ result' = "Err"
    /\ UNCHANGED <<rings, input_stream>>
    /\ UNCHANGED <<config_vars, cap_vars, ren_vars, lock_vars, ring_vars, count_vars>>

\* Lines 316-319: read_line returns once the user presses Enter; Ok(()).
\* (A failing read_line takes the same path with Err as the result.)
PressEnter ==
    /\ main_pc = "wait_enter"
    /\ main_pc' = "drop_output_stream"
    /\ result' = "Ok"
    /\ UNCHANGED <<rings, input_stream, output_stream>>
    /\ UNCHANGED <<config_vars, cap_vars, ren_vars, lock_vars, ring_vars, count_vars>>

\* Line 320, end of scope: locals are dropped in reverse order of declaration,
\* output_stream first.  Dropping a stream ends its device thread, which
\* finishes the callback it is in.
DropOutputStream ==
    /\ main_pc = "drop_output_stream"
    /\ IF output_stream \in {"built", "playing"}
       THEN Quiescent(ren_pc) /\ output_stream' = "dropped"
       ELSE output_stream' = output_stream
    /\ main_pc' = "drop_input_stream"
    /\ UNCHANGED <<result, rings, input_stream>>
    /\ UNCHANGED <<config_vars, cap_vars, ren_vars, lock_vars, ring_vars, count_vars>>

\* Line 320: input_stream is dropped, and with the last producer/consumer half
\* gone the ring storage is freed.
DropInputStream ==
    /\ main_pc = "drop_input_stream"
    /\ IF input_stream \in {"built", "playing"}
       THEN Quiescent(cap_pc) /\ input_stream' = "dropped"
       ELSE input_stream' = input_stream
    /\ rings' = "released"
    /\ main_pc' = "done"
    /\ UNCHANGED <<result, output_stream>>
    /\ UNCHANGED <<config_vars, cap_vars, ren_vars, lock_vars, ring_vars, count_vars>>


\* ------------------------------------------------- the input device thread
InSlotStaleRight(frame, ch) ==
    IF input_channels = 2
    THEN 2 * (frame - 1) + (IF ch = "L" THEN 1 ELSE 2)
    ELSE IF ch = "L" THEN frame ELSE 1

InSlotSwapped(frame, ch) ==
    IF input_channels = 2
    THEN 2 * (frame - 1) + (IF ch = "L" THEN 2 ELSE 1)
    ELSE frame

\* Position in the interleaved block of the sample pushed to ring ch.
InSlot(frame, ch) ==
    IF input_channels = 2
    THEN 2 * (frame - 1) + (IF ch = "L" THEN 1 ELSE 2)
    ELSE frame

InFrames == Len(in_data) \div input_channels

CaptureAdvanceSkipsRight ==
    IF in_frame < Len(in_data) \div input_channels
    THEN cap_pc' = "push" /\ cap_ch' = "L" /\ in_frame' = in_frame + 1
         /\ in_data' = in_data
    ELSE cap_pc' = "idle" /\ cap_ch' = "L" /\ in_frame' = 0
         /\ in_data' = <<>>

\* After the push to ring cap_ch: the R push of the same frame, the next
\* frame, or the end of the for loop and of the callback.
CaptureAdvance ==
    IF cap_ch = "L"
    THEN cap_pc' = "push" /\ cap_ch' = "R" /\ UNCHANGED <<in_data, in_frame>>
    ELSE IF in_frame < InFrames
         THEN cap_pc' = "push" /\ cap_ch' = "L" /\ in_frame' = in_frame + 1
              /\ in_data' = in_data
         ELSE cap_pc' = "idle" /\ cap_ch' = "L" /\ in_frame' = 0
              /\ in_data' = <<>>

\* The k-th sample of the interleaved input stream.  The callbacks never
\* look at a sample's value, so each sample carries its position in the
\* stream, which makes every sample distinct and distinct from Silence.
DeviceSample(k) == k

\* Lines 187-189: the audio subsystem delivers a block of f32 frames.
CaptureInvoke ==
    /\ input_stream = "playing"
    /\ default_input_config.sample_format = "F32"
    /\ cap_pc = "idle"
    /\ \E n \in 0..MaxBlock :
          /\ frames_in + n <= MaxFramesIn
          /\ frames_in' = frames_in + n
          /\ in_data' = [i \in 1..(n * input_channels) |->
                            DeviceSample(frames_in * input_channels + i)]
    /\ cap_pc' = "println"
    /\ UNCHANGED <<in_frame, cap_ch, frames_out, device_error>>
    /\ UNCHANGED <<config_vars, main_vars, ren_vars, lock_vars, ring_vars>>

\* Lines 223-226: the i16 input callback is panic!("Have i16 input data").
CaptureInvokeI16 ==
    /\ input_stream = "playing"
    /\ default_input_config.sample_format = "I16"
    /\ cap_pc = "idle"
    /\ cap_pc' = "panicked"
    /\ UNCHANGED <<in_data, in_frame, cap_ch>>
    /\ UNCHANGED <<config_vars, main_vars, ren_vars, lock_vars, ring_vars, count_vars>>

\* Line 190: println! takes the stdout lock.
CapturePrintln ==
    /\ cap_pc = "println"
    /\ stdout_lock = "none"
    /\ stdout_lock' = "capture"
    /\ cap_pc' = "println_held"
    /\ UNCHANGED <<in_data, in_frame, cap_ch, stderr_lock>>
    /\ UNCHANGED <<config_vars, main_vars, ren_vars, ring_vars, count_vars>>

\* Lines 190-198, 207, 216-217: the line is written and the lock released;
\* an empty block returns, 2 or 1 input channels enter the loop, any other
\* channel count panics.
CapturePrintlnDone ==
    /\ cap_pc = "println_held"
    /\ stdout_lock' = "none"
    /\ IF in_data = <<>>
       THEN cap_pc' = "idle" /\ UNCHANGED <<in_data, in_frame, cap_ch>>
       ELSE IF input_channels \in {1, 2}
            THEN cap_pc' = "push" /\ in_frame' = 1 /\ cap_ch' = "L"
                 /\ in_data' = in_data
            ELSE cap_pc' = "panicked" /\ UNCHANGED <<in_data, in_frame, cap_ch>>
    /\ UNCHANGED stderr_lock
    /\ UNCHANGED <<config_vars, main_vars, ren_vars, ring_vars, count_vars>>

\* Lines 200, 203, 209, 212: one try_push; Err leads to the eprintln!.
CapturePush ==
    /\ cap_pc = "push"
    /\ LET r == try_push(ring_buffer[cap_ch], in_data[InSlot(in_frame, cap_ch)],
                         Capacity)
       IN /\ ring_buffer' = [ring_buffer EXCEPT ![cap_ch] = r.rb]
          /\ IF r.ok
             THEN /\ pushed' = [pushed EXCEPT
                                  ![cap_ch] = Append(@, in_data[InSlot(in_frame, cap_ch)])]
                  /\ overruns' = overruns
                  /\ CaptureAdvance
             ELSE /\ pushed' = pushed
                  /\ overruns' = [overruns EXCEPT ![cap_ch] = @ + 1]
                  /\ cap_pc' = "eprintln"
                  /\ UNCHANGED <<in_data, in_frame, cap_ch>>
    /\ UNCHANGED <<popped, underruns, written>>
    /\ UNCHANGED <<config_vars, main_vars, ren_vars, lock_vars, count_vars>>

\* Lines 201, 204, 210, 213: eprintln! takes the stderr lock.
CaptureEprintln ==
    /\ cap_pc = "eprintln"
    /\ stderr_lock = "none"
    /\ stderr_lock' = "capture"
    /\ cap_pc' = "eprintln_held"
    /\ UNCHANGED <<in_data, in_frame, cap_ch, stdout_lock>>
    /\ UNCHANGED <<config_vars, main_vars, ren_vars, ring_vars, count_vars>>

CaptureEprintlnDone ==
    /\ cap_pc = "eprintln_held"
    /\ stderr_lock' = "none"
    /\ CaptureAdvance
    /\ UNCHANGED stdout_lock
    /\ UNCHANGED <<config_vars, main_vars, ren_vars, ring_vars, count_vars>>

\* Lines 178, 220: the audio subsystem reports a stream error on the input
\* stream; err_fn runs on the stream's thread, between data callbacks.
CaptureErrFn ==
    /\ input_stream = "playing"
    /\ cap_pc = "idle"
    /\ device_error' = TRUE
    /\ cap_pc' = "err_fn"
    /\ UNCHANGED <<in_data, in_frame, cap_ch, frames_in, frames_out>>
    /\ UNCHANGED <<config_vars, main_vars, ren_vars, lock_vars, ring_vars>>

\* Line 178: eprintln!("an error occurred on stream: {}", err), nothing else.
CaptureErrFnEprintln ==
    /\ cap_pc = "err_fn"
    /\ stderr_lock = "none"
    /\ stderr_lock' = "capture"
    /\ cap_pc' = "err_fn_held"
    /\ UNCHANGED <<in_data, in_frame, cap_ch, stdout_lock>>
    /\ UNCHANGED <<config_vars, main_vars, ren_vars, ring_vars, count_vars>>

CaptureErrFnDone ==
    /\ cap_pc = "err_fn_held"
    /\ stderr_lock' = "none"
    /\ cap_pc' = "idle"
    /\ UNCHANGED <<in_data, in_frame, cap_ch, stdout_lock>>
    /\ UNCHANGED <<config_vars, main_vars, ren_vars, ring_vars, count_vars>>

\* ------------------------------------------------ the output device thread
OutFrames == Len(out_data) \div output_channels

write_slot_skip(data, frame, ch, v) == data

write_slot_mono_right(data, frame, ch, v) ==
    IF output_channels = 2
    THEN [data EXCEPT ![2 * (frame - 1) + (IF ch = "L" THEN 1 ELSE 2)] = v]
    ELSE IF ch = "R" THEN [data EXCEPT ![frame] = v] ELSE data

\* frame[0] = .. / frame[1] = .. (lines 264, 268) and *sample = .. (line 275);
\* with one output channel the R sample is popped and discarded (line 279).
write_slot(data, frame, ch, v) ==
    IF output_channels = 2
    THEN [data EXCEPT ![2 * (frame - 1) + (IF ch = "L" THEN 1 ELSE 2)] = v]
    ELSE IF ch = "L" THEN [data EXCEPT ![frame] = v] ELSE data

RenderAdvanceMonoSkipsRight ==
    IF ren_ch = "L" /\ output_channels = 2
    THEN ren_pc' = "pop" /\ ren_ch' = "R" /\ out_frame' = out_frame
    ELSE IF out_frame < OutFrames
         THEN ren_pc' = "pop" /\ ren_ch' = "L" /\ out_frame' = out_frame + 1
         ELSE ren_pc' = "idle" /\ ren_ch' = "L" /\ out_frame' = 0

\* After the pop from ring ren_ch: the R pop of the same frame, the next
\* frame, or the end of the for loop and of the callback.
RenderAdvance ==
    IF ren_ch = "L"
    THEN ren_pc' = "pop" /\ ren_ch' = "R" /\ out_frame' = out_frame
    ELSE IF out_frame < OutFrames
         THEN ren_pc' = "pop" /\ ren_ch' = "L" /\ out_frame' = out_frame + 1
         ELSE ren_pc' = "idle" /\ ren_ch' = "L" /\ out_frame' = 0

\* Lines 245-247: the audio subsystem asks for a block of f32 frames.
RenderInvoke ==
    /\ output_stream = "playing"
    /\ default_output_config.sample_format = "F32"
    /\ ren_pc = "idle"
    /\ \E n \in 0..MaxBlock :
          /\ frames_out + n <= MaxFramesOut
          /\ frames_out' = frames_out + n
          /\ out_data' = [i \in 1..(n * output_channels) |-> Unwritten]
    /\ ren_pc' = "println"
    /\ UNCHANGED <<out_frame, ren_ch, frames_in, device_error>>
    /\ UNCHANGED <<config_vars, main_vars, cap_vars, lock_vars, ring_vars>>

\* Lines 291-294: the i16 output callback is panic!("filling i16 output data").
RenderInvokeI16 ==
    /\ output_stream = "playing"
    /\ default_output_config.sample_format = "I16"
    /\ ren_pc = "idle"
    /\ ren_pc' = "panicked"
    /\ UNCHANGED <<out_data, out_frame, ren_ch>>
    /\ UNCHANGED <<config_vars, main_vars, cap_vars, lock_vars, ring_vars, count_vars>>

\* Line 248: println! takes the stdout lock.
RenderPrintln ==
    /\ ren_pc = "println"
    /\ stdout_lock = "none"
    /\ stdout_lock' = "render"
    /\ ren_pc' = "println_held"
    /\ UNCHANGED <<out_data, out_frame, ren_ch, stderr_lock>>
    /\ UNCHANGED <<config_vars, main_vars, cap_vars, ring_vars, count_vars>>

\* Lines 248-262, 273, 284-285: 2 or 1 output channels enter the loop (which
\* ends at once on an empty block), any other channel count panics.
RenderPrintlnDone ==
    /\ ren_pc = "println_held"
    /\ stdout_lock' = "none"
    /\ IF output_channels \in {1, 2}
       THEN IF out_data = <<>>
            THEN ren_pc' = "idle" /\ UNCHANGED <<out_frame, ren_ch>>
            ELSE ren_pc' = "pop" /\ out_frame' = 1 /\ ren_ch' = "L"
       ELSE ren_pc' = "panicked" /\ UNCHANGED <<out_frame, ren_ch>>
    /\ UNCHANGED <<out_data, stderr_lock>>
    /\ UNCHANGED <<config_vars, main_vars, cap_vars, ring_vars, count_vars>>

\* Lines 264, 268, 275, 279: one try_pop; Some(v) is written to the slot,
\* None leads to the eprintln! inside unwrap_or_else.
RenderPop ==
    /\ ren_pc = "pop"
    /\ LET r == try_pop(ring_buffer[ren_ch])
       IN /\ ring_buffer' = [ring_buffer EXCEPT ![ren_ch] = r.rb]
          /\ IF r.some
             THEN /\ popped' = [popped EXCEPT ![ren_ch] = Append(@, r.value)]
                  /\ out_data' = write_slot(out_data, out_frame, ren_ch, r.value)
                  /\ written' = IF out_data' # out_data
                                THEN [written EXCEPT ![ren_ch] = Append(@, r.value)]
                                ELSE written
                  /\ underruns' = underruns
                  /\ RenderAdvance
             ELSE /\ popped' = popped
                  /\ written' = written
                  /\ underruns' = [underruns EXCEPT ![ren_ch] = @ + 1]
                  /\ ren_pc' = "eprintln"
                  /\ UNCHANGED <<out_data, out_frame, ren_ch>>
    /\ UNCHANGED <<pushed, overruns>>
    /\ UNCHANGED <<config_vars, main_vars, cap_vars, lock_vars, count_vars>>

\* Lines 265, 269, 276, 280: eprintln! takes the stderr lock.
RenderEprintln ==
    /\ ren_pc = "eprintln"
    /\ stderr_lock = "none"
    /\ stderr_lock' = "render"
    /\ ren_pc' = "eprintln_held"
    /\ UNCHANGED <<out_data, out_frame, ren_ch, stdout_lock>>
    /\ UNCHANGED <<config_vars, main_vars, cap_vars, ring_vars, count_vars>>

\* Lines 266, 270, 277, 281: the closure yields 0.0, which is written.
RenderEprintlnDone ==
    /\ ren_pc = "eprintln_held"
    /\ stderr_lock' = "none"
    /\ out_data' = write_slot(out_data, out_frame, ren_ch, Silence)
    /\ RenderAdvance
    /\ UNCHANGED stdout_lock
    /\ UNCHANGED <<config_vars, main_vars, cap_vars, ring_vars, count_vars>>

\* Lines 178, 288: a stream error reported on the output stream.
RenderErrFn ==
    /\ output_stream = "playing"
    /\ ren_pc = "idle"
    /\ device_error' = TRUE
    /\ ren_pc' = "err_fn"
    /\ UNCHANGED <<out_data, out_frame, ren_ch, frames_in, frames_out>>
    /\ UNCHANGED <<config_vars, main_vars, cap_vars, lock_vars, ring_vars>>

RenderErrFnEprintln ==
    /\ ren_pc = "err_fn"
    /\ stderr_lock = "none"
    /\ stderr_lock' = "render"
    /\ ren_pc' = "err_fn_held"
    /\ UNCHANGED <<out_data, out_frame, ren_ch, stdout_lock>>
    /\ UNCHANGED <<config_vars, main_vars, cap_vars, ring_vars, count_vars>>

RenderErrFnDone ==
    /\ ren_pc = "err_fn_held"
    /\ stderr_lock' = "none"
    /\ ren_pc' = "idle"
    /\ UNCHANGED <<out_data, out_frame, ren_ch, stdout_lock>>
    /\ UNCHANGED <<config_vars, main_vars, cap_vars, ring_vars, count_vars>>

\* ------------------------------------------------------- specification
MainStep ==
    \/ CheckSampleFormat
    \/ CheckSampleRate
    \/ CreateRings
    \/ BuildInputStream
    \/ BuildOutputStream
    \/ PlayInputStream
    \/ PlayOutputStream
    \/ DropOutputStream
    \/ DropInputStream

CaptureStep ==
    \/ CapturePrintln
    \/ CapturePrintlnDone
    \/ CapturePush
    \/ CaptureEprintln
    \/ CaptureEprintlnDone
    \/ CaptureErrFnEprintln
    \/ CaptureErrFnDone

RenderStep ==
    \/ RenderPrintln
    \/ RenderPrintlnDone
    \/ RenderPop
    \/ RenderEprintln
    \/ RenderEprintlnDone
    \/ RenderErrFnEprintln
    \/ RenderErrFnDone

\* What the audio subsystem and the user decide: when a callback is invoked,
\* when a stream error is reported, when Enter is pressed.
EnvironmentStep ==
    \/ CaptureInvoke
    \/ CaptureInvokeI16
    \/ RenderInvoke
    \/ RenderInvokeI16
    \/ CaptureErrFn
    \/ RenderErrFn
    \/ PressEnter

Next == MainStep \/ CaptureStep \/ RenderStep \/ EnvironmentStep

Spec == Init /\ [][Next]_vars


\* The audio subsystem and the user are under no obligation; every step of
\* the program itself is taken once it stays possible (each thread keeps
\* being scheduled).
FairSpec ==
    /\ Spec
    /\ WF_vars(MainStep)
    /\ WF_vars(CaptureStep)
    /\ WF_vars(RenderStep)

\* An output callback invocation that asks for at least one frame.
RenderInvokeNonEmpty == RenderInvoke /\ frames_out' > frames_out

\* The input thread keeps being scheduled, and the output callback keeps
\* being invoked with non-empty blocks while its stream plays: the device
\* keeps asking, and every invocation gets through its println!/eprintln!
\* and returns, although the stdout and stderr locks it waits for are free
\* only now and then.
LiveSpec ==
    /\ Spec
    /\ WF_vars(CaptureStep)
    /\ SF_vars(RenderStep)
    /\ SF_vars(RenderInvokeNonEmpty)

\* ------------------------------------------------------------ properties
Running == main_pc = "wait_enter"
Stopped == main_pc = "done"

Full(c) == Len(ring_buffer[c]) = Capacity
Empty(c) == ring_buffer[c] = <<>>

IsPrefix(s, t) == Len(s) <= Len(t) /\ SubSeq(t, 1, Len(s)) = s

\* The samples accepted by ring c and not yet popped, oldest first.
Unpopped(c) == SubSeq(pushed[c], Len(popped[c]) + 1, Len(pushed[c]))

\* The input thread / output thread takes a step of its callback.
CaptureMoves == cap_vars' # cap_vars
RenderMoves == ren_vars' # ren_vars

\* Slot of the output block that holds ring ch's sample of a frame.
OutSlot(frame, ch) ==
    IF output_channels = 2
    THEN 2 * (frame - 1) + (IF ch = "L" THEN 1 ELSE 2)
    ELSE frame

\* C1: for each ring, successful pushes minus successful pops is never
\* negative and never more than the ring's capacity.
RingInvariant ==
    \A c \in Channel :
        /\ Len(pushed[c]) - Len(popped[c]) >= 0
        /\ Len(pushed[c]) - Len(popped[c]) <= Capacity

\* C1 witness: a ring that has been popped from is full again.
RingFullAfterPop ==
    \E c \in Channel :
        /\ Len(popped[c]) > 0
        /\ Len(pushed[c]) - Len(popped[c]) = Capacity

\* A data callback waits for a lock that the other data callback holds.
CaptureWaitsOnRender ==
    \/ cap_pc = "println" /\ stdout_lock = "render" /\ ren_pc = "println_held"
    \/ cap_pc = "eprintln" /\ stderr_lock = "render" /\ ren_pc = "eprintln_held"

RenderWaitsOnCapture ==
    \/ ren_pc = "println" /\ stdout_lock = "capture" /\ cap_pc = "println_held"
    \/ ren_pc = "eprintln" /\ stderr_lock = "capture" /\ cap_pc = "eprintln_held"

\* C2: the callbacks share no lock, so neither callback is ever held up by
\* a lock the other callback holds.
CallbacksShareNoLock == ~CaptureWaitsOnRender /\ ~RenderWaitsOnCapture

\* C3: a try_push on a full ring returns "full" and a try_pop on an empty
\* ring returns "empty", in the one step the call takes, whatever the other
\* thread is doing; the call is always able to take that step.
TryPushTryPopNeverWait ==
    /\ [][/\ (cap_pc = "push" /\ Full(cap_ch) /\ CaptureMoves)
              => cap_pc' = "eprintln"
          /\ (ren_pc = "pop" /\ Empty(ren_ch) /\ RenderMoves)
              => ren_pc' = "eprintln"]_vars
    /\ [](cap_pc = "push" => ENABLED CapturePush)
    /\ [](ren_pc = "pop" => ENABLED RenderPop)

\* C3 witness: a try_push has just returned "full" and a try_pop "empty".
FullAndEmptyReturned == cap_pc = "eprintln" /\ ren_pc = "eprintln"

\* C4: what try_pop has returned is always a prefix of what try_push has
\* accepted, and a try_pop made when everything accepted has been popped
\* returns "empty".
PoppedIsPrefixOfPushed ==
    /\ [](\A c \in Channel : IsPrefix(popped[c], pushed[c]))
    /\ [][(ren_pc = "pop" /\ popped[ren_ch] = pushed[ren_ch] /\ RenderMoves)
              => (ren_pc' = "eprintln" /\ popped' = popped)]_vars

\* C4 witness: two or more samples went through a ring and the pop after
\* the last of them found it empty.
AllPoppedThenEmpty ==
    \E c \in Channel :
        /\ Len(popped[c]) >= 2
        /\ popped[c] = pushed[c]
        /\ ren_pc = "eprintln"
        /\ ren_ch = c

\* C5: a try_push on a full ring stores nothing and leaves the ring as it
\* was, and every later successful pop returns the oldest sample stored.
FullPushDropsSample ==
    /\ [][(cap_pc = "push" /\ Full(cap_ch) /\ CaptureMoves)
              => (ring_buffer' = ring_buffer /\ pushed' = pushed)]_vars
    /\ [][(ren_pc = "pop" /\ ~Empty(ren_ch) /\ RenderMoves)
              => /\ popped' = [popped EXCEPT
                                 ![ren_ch] = Append(@, Head(ring_buffer[ren_ch]))]
                 /\ ring_buffer' = [ring_buffer EXCEPT ![ren_ch] = Tail(@)]]_vars
    /\ [](\A c \in Channel : ring_buffer[c] = Unpopped(c))

\* C5 witness: the L ring was filled, a later L sample was dropped, and the
\* pops then returned exactly the samples stored before the drop.
DroppedThenDrained ==
    /\ cap_pc = "idle"
    /\ input_channels \in {1, 2}
    /\ Len(pushed["L"]) = Capacity
    /\ Len(pushed["L"]) < frames_in
    /\ popped["L"] = pushed["L"]

\* C6: when an output callback has returned, every slot of its block is
\* written; a slot is written with the sample popped from its ring, or with
\* silence when the pop found the ring empty.
RenderFillsBlock ==
    /\ [](ren_pc \in {"idle", "err_fn", "err_fn_held"}
             => \A i \in DOMAIN out_data : out_data[i] # Unwritten)
    /\ [][/\ (ren_pc = "pop" /\ ~Empty(ren_ch) /\ RenderMoves
                /\ (output_channels = 2 \/ ren_ch = "L"))
              => out_data'[OutSlot(out_frame, ren_ch)] = Head(ring_buffer[ren_ch])
          /\ (ren_pc = "pop" /\ Empty(ren_ch) /\ RenderMoves)
              => (ren_pc' = "eprintln" /\ out_data' = out_data)
          /\ (ren_pc = "eprintln_held" /\ RenderMoves
                /\ (output_channels = 2 \/ ren_ch = "L"))
              => out_data'[OutSlot(out_frame, ren_ch)] = Silence
          /\ (ren_pc = "eprintln" /\ RenderMoves)
              => ren_pc' = "eprintln_held"]_vars

\* C6 witness: a returned block of two frames or more that holds a popped
\* sample and a silence.
BlockWithSampleAndSilence ==
    /\ ren_pc = "idle"
    /\ Len(out_data) >= 2 * output_channels
    /\ \E i, j \in DOMAIN out_data :
          out_data[i] = Silence /\ out_data[j] \notin {Silence, Unwritten}

FormatsIncompatible ==
    \/ default_input_config.sample_format # default_output_config.sample_format
    \/ default_input_config.sample_rate # default_output_config.sample_rate

\* C7: with input and output formats of different sample rate or sample
\* kind, run_loopback ends by returning an error to its caller, having
\* created no ring and built no stream.
MismatchReturnsError ==
    (FormatsIncompatible /\ main_pc # "check_sample_format"
                         /\ main_pc # "check_sample_rate")
        => /\ main_pc = "done"
           /\ result = "Err"
           /\ rings = "none"
           /\ input_stream = "none"
           /\ output_stream = "none"

UnsupportedChannelCount ==
    input_channels \notin {1, 2} \/ output_channels \notin {1, 2}

\* C8: with a channel count other than 1 or 2 no stream ever plays, and no
\* callback invocation fails.
UnsupportedChannelsRejectedAtStart ==
    UnsupportedChannelCount
        => /\ input_stream # "playing"
           /\ output_stream # "playing"
           /\ cap_pc # "panicked"
           /\ ren_pc # "panicked"

\* C9: with both devices at sample kind Int16 no callback invocation fails.
Int16CallbacksNeverFail ==
    (default_input_config.sample_format = "I16"
        /\ default_output_config.sample_format = "I16")
        => (cap_pc # "panicked" /\ ren_pc # "panicked")

\* C10: once a stream error has been reported while the bridge is Running,
\* the bridge eventually is Stopped with both streams and the rings released.
DeviceErrorStopsBridge ==
    (device_error /\ Running)
        ~> (Stopped /\ rings = "released" /\ input_stream = "dropped"
                    /\ output_stream = "dropped")


\* C11: once the ring storage is released neither device thread is inside a
\* callback, and neither stream can invoke one again.
NoCallbackAfterRelease ==
    rings = "released"
        => /\ cap_pc \in {"idle", "panicked"}
           /\ ren_pc \in {"idle", "panicked"}
           /\ input_stream # "playing"
           /\ output_stream # "playing"

\* C11 witness: the rings are released after both callbacks moved samples.
ReleasedAfterStreaming ==
    /\ rings = "released"
    /\ input_stream = "dropped"
    /\ output_stream = "dropped"
    /\ pushed["L"] # <<>>
    /\ popped["L"] # <<>>

\* C12: with one input channel every try_push of a frame, to L and to R,
\* offers that frame's single input sample, and a returned input callback has
\* made one try_push per ring for every sample delivered.
MonoInputBroadcast ==
    /\ [][(input_channels = 1 /\ cap_pc = "push" /\ CaptureMoves)
              => \/ /\ pushed'[cap_ch] = Append(pushed[cap_ch], in_data[in_frame])
                    /\ ring_buffer'[cap_ch]
                          = Append(ring_buffer[cap_ch], in_data[in_frame])
                 \/ /\ Full(cap_ch)
                    /\ overruns'[cap_ch] = overruns[cap_ch] + 1]_vars
    /\ []((input_channels = 1 /\ cap_pc = "idle")
             => \A c \in Channel : Len(pushed[c]) + overruns[c] = frames_in)

\* C12 witness: two mono samples were accepted by both rings.
MonoSamplesInBothRings ==
    /\ input_channels = 1
    /\ Len(pushed["L"]) >= 2
    /\ pushed["L"] = pushed["R"]

\* C13: with one output channel each output sample is the sample popped
\* from L, or silence when L was empty; the R pop of the frame writes nothing;
\* a returned output callback has made one try_pop per ring for every output
\* sample.
MonoOutputTakesLeft ==
    /\ [][(output_channels = 1 /\ ren_pc = "pop" /\ RenderMoves)
              => IF ren_ch = "L"
                 THEN IF Empty("L")
                      THEN out_data' = out_data /\ ren_pc' = "eprintln"
                      ELSE out_data' = [out_data EXCEPT
                                          ![out_frame] = Head(ring_buffer["L"])]
                 ELSE /\ out_data' = out_data
                      /\ ~Empty("R") => ring_buffer'["R"] = Tail(ring_buffer["R"])]_vars
    /\ [][(output_channels = 1 /\ ren_pc = "eprintln_held" /\ RenderMoves)
              => IF ren_ch = "L"
                 THEN out_data' = [out_data EXCEPT ![out_frame] = Silence]
                 ELSE out_data' = out_data]_vars
    /\ []((output_channels = 1 /\ ren_pc = "idle")
             => \A c \in Channel : Len(popped[c]) + underruns[c] = frames_out)

\* C13 witness: a returned mono block of two samples holds a popped sample
\* and R samples were popped and discarded.
MonoBlockWithDiscardedRight ==
    /\ output_channels = 1
    /\ ren_pc = "idle"
    /\ Len(out_data) >= 2
    /\ \E i \in DOMAIN out_data : out_data[i] \notin {Silence, Unwritten}
    /\ Len(popped["R"]) >= 2

\* s is what is left of t after removing some of its oldest elements.
IsSuffix(s, t) ==
    Len(s) <= Len(t) /\ SubSeq(t, Len(t) - Len(s) + 1, Len(t)) = s

\* C14: a returned input callback has made exactly one try_push per ring
\* for every frame delivered, so each write cursor advanced by at most that
\* many; the input thread never moves a read cursor and the output thread
\* never moves a write cursor.
CallbackCursorEffects ==
    /\ [](cap_pc = "idle"
             => \A c \in Channel :
                   /\ Len(pushed[c]) + overruns[c] = frames_in
                   /\ Len(pushed[c]) <= frames_in)
    /\ [][CaptureMoves
              => /\ popped' = popped
                 /\ underruns' = underruns
                 /\ \A c \in Channel : IsPrefix(ring_buffer[c], ring_buffer'[c])]_vars
    /\ [][RenderMoves
              => /\ pushed' = pushed
                 /\ overruns' = overruns
                 /\ \A c \in Channel : IsSuffix(ring_buffer'[c], ring_buffer[c])]_vars

\* C14 witness: a returned input callback advanced a write cursor by fewer
\* than the frames delivered, because of an overrun.
ReturnedAfterOverrun ==
    /\ cap_pc = "idle"
    /\ \E c \in Channel : overruns[c] > 0 /\ Len(pushed[c]) > 0

\* With two input channels frame k of the input stream is the samples
\* DeviceSample(2k - 1), DeviceSample(2k).
SameInputFrame(l, r) == l % 2 = 1 /\ r = l + 1

\* The frames of the output block whose two slots hold popped samples.
PoppedPairs ==
    {f \in 1..OutFrames :
        /\ out_data[2 * f - 1] \notin {Silence, Unwritten}
        /\ out_data[2 * f] \notin {Silence, Unwritten}}

NoLossSoFar ==
    \A c \in Channel : overruns[c] = 0 /\ underruns[c] = 0

\* C15: (stereo input, stereo output) in every output frame made of a
\* sample popped from L and a sample popped from R, the two samples come from
\* the same input frame, whatever overruns and underruns happened.
PairingAlwaysPreserved ==
    (input_channels = 2 /\ output_channels = 2)
        => \A f \in PoppedPairs :
              SameInputFrame(out_data[2 * f - 1], out_data[2 * f])

\* C16: a try_push fails only on a ring that holds Capacity samples and a
\* try_pop only on a ring that holds none; a push on a ring with free space
\* stores the sample, and silence is written only after a failed pop.
LossOnlyWhenFullOrEmpty ==
    [][/\ \A c \in Channel :
             /\ overruns'[c] # overruns[c] => Full(c)
             /\ underruns'[c] # underruns[c] => Empty(c)
       /\ (cap_pc = "push" /\ CaptureMoves /\ ~Full(cap_ch))
             => Len(pushed'[cap_ch]) = Len(pushed[cap_ch]) + 1
       /\ (cap_pc = "push" /\ cap_pc' = "eprintln") => Full(cap_ch)
       /\ (ren_pc = "pop" /\ ren_pc' = "eprintln") => Empty(ren_ch)
       /\ (ren_pc = "pop" /\ RenderMoves /\ ~Empty(ren_ch))
             => Len(popped'[ren_ch]) = Len(popped[ren_ch]) + 1
       /\ (ren_pc # "idle" /\ out_data' # out_data
             /\ \E i \in DOMAIN out_data :
                   out_data[i] # Silence /\ out_data'[i] = Silence)
             => ren_pc = "eprintln_held"]_vars

\* C16 witness: one ring has seen both an overrun and an underrun.
OverrunAndUnderrun ==
    \E c \in Channel : overruns[c] > 0 /\ underruns[c] > 0

CanStillAccept(c) == MaxFramesIn - Len(pushed[c]) - overruns[c]

\* This many try_pop calls on ring c are still to come when the output
\* device asks for all the frames it can.
WillStillPop(c) == MaxFramesOut - Len(popped[c]) - underruns[c]

\* The bridge is Running and the output device will ask for enough frames to
\* reach every sample ring c holds or may still accept.
RenderCoversRing(c) ==
    /\ Running
    /\ Len(ring_buffer[c]) + CanStillAccept(c) <= WillStillPop(c)

\* C18: while the bridge is Running and the output callback keeps being
\* invoked with non-empty blocks, every sample accepted by a ring is
\* eventually popped and stored in an output block: each ring gets empty with
\* all it accepted stored.
AcceptedSamplesEventuallyWritten ==
    \A c \in Channel :
        RenderCoversRing(c)
            ~> \/ Empty(c) /\ popped[c] = pushed[c] /\ written[c] = pushed[c]
               \/ ~Running
               \/ ren_pc = "panicked"

\* C18 as amended: every accepted sample is eventually popped, and stored in
\* an output block unless it is an R sample and the output has one channel.
AcceptedSamplesEventuallyPopped ==
    \A c \in Channel :
        RenderCoversRing(c)
            ~> \/ /\ Empty(c)
                  /\ popped[c] = pushed[c]
                  /\ written[c] = pushed[c] \/ (output_channels = 1 /\ c = "R")
               \/ ~Running
               \/ ren_pc = "panicked"

\* C18 witness: the bridge is Running and every sample the input device
\* could deliver has gone through ring R into an output block.
AllSamplesWritten ==
    /\ Running
    /\ Len(pushed["R"]) = MaxFramesIn
    /\ Empty("R")
    /\ written["R"] = pushed["R"]

====
